---- MODULE Spec2Model ----
(***************************************************************************)
(* Box 3 tax calculator: the simulation engine (runSimulation) and the     *)
(* regime calculators of taxSystems.js.                                    *)
(*                                                                         *)
(* JavaScript numbers are modelled as exact rationals <<n, d>> in lowest   *)
(* terms with d > 0 (IEEE-754 rounding is not modelled).  A value that is  *)
(* not a finite number has d <= 0: NaN, Undefined.                         *)
(***************************************************************************)
EXTENDS Integers, Sequences, FiniteSets, TLC

VARIABLES
    startCapital,            \* argument of runSimulation
    returns,                 \* argument: sequence of [year, return]
    configs,                 \* argument: [noTax, old, current, future]
    contributionsByYear,     \* argument: flat number or year -> amount map
    pc,                      \* position in runSimulation
    i,                       \* index of the outer for loop (0-based)
    sysIdx,                  \* position of the inner for-of loop in systems
    portfolioValues,
    annualTax,
    cumulativeTax,
    futureCarryForwardLoss,
    labels,
    taxLabels,
    locals,                  \* per system, the loop body's locals of every year
    futureLocals,            \* the 'future' case's locals of every year
    calcFn,                  \* calculator called directly (none inside a run)
    calcValue,               \* its portfolioValue / first argument
    calcAmount,              \* its actualReturn / taxableIncome argument
    calcConfig,              \* its config argument
    calcResult               \* its return value

simVars == <<i, sysIdx, portfolioValues, annualTax, cumulativeTax,
             futureCarryForwardLoss, labels, taxLabels, locals, futureLocals>>

argVars == <<startCapital, returns, configs, contributionsByYear>>

calcVars == <<calcFn, calcValue, calcAmount, calcConfig, calcResult>>

vars == <<startCapital, returns, configs, contributionsByYear, pc, i, sysIdx,
          portfolioValues, annualTax, cumulativeTax, futureCarryForwardLoss,
          labels, taxLabels, locals, futureLocals,
          calcFn, calcValue, calcAmount, calcConfig, calcResult>>

-----------------------------------------------------------------------------
(* Numbers *)

(* Arithmetic is defined by functions: a function application evaluates   *)
(* its arguments once, as the JavaScript operators do                      *)
Rat == Int \X Int

gcd[a \in Nat, b \in Nat] == IF b = 0 THEN a ELSE gcd[b, a % b]

GCD(a, b) == gcd[a, b]

IntAbs(x) == IF x < 0 THEN -x ELSE x

norm[n \in Int, d \in Int] ==
    IF n = 0 THEN <<0, 1>>
    ELSE LET g == gcd[IntAbs(n), d] IN <<n \div g, d \div g>>

Norm(n, d) == norm[n, d]

R(n) == <<n, 1>>

Zero == <<0, 1>>

One == <<1, 1>>

NaN == <<0, 0>>

PosInf == <<1, 0>>

NegInf == <<-1, 0>>

(* values that are not numbers: undefined, null, a non-numeric string *)
Undefined == <<0, -1>>

Null == <<0, -2>>

NonNumeric == <<0, -3>>

IsFinite(x) == x[2] > 0

(* Number(x), also the conversion the operators - * / < apply to operands *)
toNumber[x \in Rat] ==
    IF x[2] >= 0 THEN x ELSE IF x = Null THEN Zero ELSE NaN

ToNumber(x) == toNumber[x]

radd[a \in Rat, b \in Rat] ==
    IF a[2] > 0 /\ b[2] > 0
    THEN LET g == gcd[a[2], b[2]]
         IN norm[a[1] * (b[2] \div g) + b[1] * (a[2] \div g), a[2] * (b[2] \div g)]
    ELSE LET x == toNumber[a]
             y == toNumber[b]
         IN IF x = NaN \/ y = NaN THEN NaN
            ELSE IF x[2] > 0 /\ y[2] > 0 THEN radd[x, y]
            ELSE IF x[2] = 0 /\ y[2] = 0 THEN (IF x = y THEN x ELSE NaN)
            ELSE IF x[2] = 0 THEN x ELSE y

RAdd(a, b) == radd[a, b]

rneg[a \in Rat] == IF a[2] >= 0 THEN <<-a[1], a[2]>> ELSE toNumber[a]

RNeg(a) == rneg[a]

RSub(a, b) == radd[a, rneg[b]]

IntSign(x) == IF x < 0 THEN -1 ELSE IF x > 0 THEN 1 ELSE 0

rmul[a \in Rat, b \in Rat] ==
    IF a[2] > 0 /\ b[2] > 0
    THEN LET g1 == gcd[IntAbs(a[1]), b[2]]
             g2 == gcd[IntAbs(b[1]), a[2]]
         IN IF a[1] = 0 \/ b[1] = 0 THEN Zero
            ELSE <<(a[1] \div g1) * (b[1] \div g2), (a[2] \div g2) * (b[2] \div g1)>>
    ELSE LET x == toNumber[a]
             y == toNumber[b]
         IN IF x[2] > 0 /\ y[2] > 0 THEN rmul[x, y]
            ELSE <<IntSign(x[1]) * IntSign(y[1]), 0>>

RMul(a, b) == rmul[a, b]

(* 1 / a: 1/0 is +Infinity, 1/Infinity is 0 *)
rinv[a \in Rat] ==
    IF a[2] > 0
    THEN IF a[1] < 0 THEN <<-a[2], -a[1]>> ELSE <<a[2], a[1]>>
    ELSE LET x == toNumber[a]
         IN IF x[2] > 0 THEN rinv[x] ELSE IF x = NaN THEN NaN ELSE Zero

RInv(a) == rinv[a]

RDiv(a, b) == rmul[a, rinv[b]]

rlt[a \in Rat, b \in Rat] ==
    IF a[2] > 0 /\ b[2] > 0
    THEN LET g == gcd[a[2], b[2]]
         IN a[1] * (b[2] \div g) < b[1] * (a[2] \div g)
    ELSE LET x == toNumber[a]
             y == toNumber[b]
         IN IF x = NaN \/ y = NaN THEN FALSE
            ELSE IF x[2] > 0 /\ y[2] > 0 THEN rlt[x, y]
            ELSE IF x = y THEN FALSE
            ELSE x = NegInf \/ y = PosInf

RLt(a, b) == rlt[a, b]

rle[a \in Rat, b \in Rat] ==
    IF a[2] > 0 /\ b[2] > 0 THEN ~rlt[b, a]
    ELSE toNumber[a] # NaN /\ toNumber[b] # NaN /\ ~rlt[b, a]

RLe(a, b) == rle[a, b]

mathMax[a \in Rat, b \in Rat] ==
    IF a[2] > 0 /\ b[2] > 0 THEN (IF rlt[a, b] THEN b ELSE a)
    ELSE LET x == toNumber[a]
             y == toNumber[b]
         IN IF x = NaN \/ y = NaN THEN NaN ELSE IF rlt[x, y] THEN y ELSE x

MathMax(a, b) == mathMax[a, b]

mathMin[a \in Rat, b \in Rat] ==
    IF a[2] > 0 /\ b[2] > 0 THEN (IF rlt[b, a] THEN b ELSE a)
    ELSE LET x == toNumber[a]
             y == toNumber[b]
         IN IF x = NaN \/ y = NaN THEN NaN ELSE IF rlt[y, x] THEN y ELSE x

MathMin(a, b) == mathMin[a, b]

mathAbs[a \in Rat] ==
    IF a[2] >= 0 THEN <<IntAbs(a[1]), a[2]>> ELSE mathAbs[toNumber[a]]

MathAbs(a) == mathAbs[a]

Pct(x) == RDiv(x, R(100))

(* x || dflt: dflt replaces the falsy values NaN, 0, undefined, null *)
orElse[x \in Rat, dflt \in Rat] ==
    IF x = NaN \/ x = Zero \/ x = Undefined \/ x = Null THEN dflt ELSE x

OrElse(x, dflt) == orElse[x, dflt]

(* a destructuring default: applies to undefined only *)
default[x \in Rat, dflt \in Rat] == IF x = Undefined THEN dflt ELSE x

Default(x, dflt) == default[x, dflt]

rpow[x \in Rat, k \in Nat] == IF k = 0 THEN One ELSE rmul[x, rpow[x, k - 1]]

RPow(x, k) == rpow[x, k]

TwelfthRoots == {<<1, 2>>, One}

MathPowTwelfth(x) == CHOOSE y \in TwelfthRoots : RPow(y, 12) = x

HasTwelfthRoot(x) == \E y \in TwelfthRoots : RPow(y, 12) = x

-----------------------------------------------------------------------------
(* taxSystems.js *)

getPartnerMultiplierAtLeastOne(config) ==
    LET raw == ToNumber(config.partnerMultiplier)
    IN IF IsFinite(raw) /\ RLe(One, raw) THEN R(2) ELSE One

getPartnerMultiplier(config) ==
    LET raw == ToNumber(config.partnerMultiplier)
    IN IF IsFinite(raw) /\ RLt(One, raw) THEN R(2) ELSE One

normalizeAllocationsPercent(allocSavings, allocInvest, allocDebt) ==
    [savingsShare |-> Pct(MathMax(Zero, OrElse(ToNumber(allocSavings), Zero))),
     investShare |-> Pct(MathMax(Zero, OrElse(ToNumber(allocInvest), Zero))),
     debtShare |-> Pct(MathMax(Zero, OrElse(ToNumber(allocDebt), Zero)))]

normalizeAllocations(allocSavings, allocInvest, allocDebt) ==
    LET savings == MathMax(Zero, OrElse(ToNumber(allocSavings), Zero))
        invest == MathMax(Zero, OrElse(ToNumber(allocInvest), Zero))
        debt == MathMax(Zero, OrElse(ToNumber(allocDebt), Zero))
        total == RAdd(RAdd(savings, invest), debt)
    IN IF RLe(total, Zero)
       THEN [savingsShare |-> Zero, investShare |-> Zero, debtShare |-> Zero]
       ELSE [savingsShare |-> RDiv(savings, total),
             investShare |-> RDiv(invest, total),
             debtShare |-> RDiv(debt, total)]

calcNoTaxOne == One

calcNoTax == Zero

calcOldSystemRefund(portfolioValue, actualReturn, config) ==
    RMul(RMul(RSub(portfolioValue,
                   RMul(Default(config.exemption, R(21139)),
                        getPartnerMultiplier(config))),
              Pct(Default(config.deemedReturn, R(4)))),
         Pct(Default(config.taxRate, R(30))))

calcOldSystemOnReturn(portfolioValue, actualReturn, config) ==
    LET effectiveExemption ==
            RMul(Default(config.exemption, R(21139)), getPartnerMultiplier(config))
        taxableWealth ==
            MathMax(Zero, RSub(RAdd(portfolioValue, actualReturn), effectiveExemption))
    IN MathMax(Zero, RMul(RMul(taxableWealth, Pct(Default(config.deemedReturn, R(4)))),
                          Pct(Default(config.taxRate, R(30)))))

calcOldSystem(portfolioValue, actualReturn, config) ==
    LET deemedReturn == Default(config.deemedReturn, R(4))
        taxRate == Default(config.taxRate, R(30))
        exemption == Default(config.exemption, R(21139))
        partnerMultiplier == getPartnerMultiplier(config)
        effectiveExemption == RMul(exemption, partnerMultiplier)
        taxableWealth == MathMax(Zero, RSub(portfolioValue, effectiveExemption))
        deemedIncome == RMul(taxableWealth, Pct(deemedReturn))
        tax == RMul(deemedIncome, Pct(taxRate))
    IN MathMax(Zero, tax)

calcCurrentSystemNoApportion(portfolioValue, actualReturn, config) ==
    LET totalWealth == MathMax(Zero, portfolioValue)
        partnerMultiplier == getPartnerMultiplier(config)
        shares == normalizeAllocations(Default(config.allocSavings, Zero),
                                       Default(config.allocInvest, R(100)),
                                       Default(config.allocDebt, Zero))
        savingsPortion == RMul(totalWealth, shares.savingsShare)
        investPortion == RMul(totalWealth, shares.investShare)
        deductibleDebt ==
            MathMax(Zero, RSub(RMul(totalWealth, shares.debtShare),
                               RMul(Default(config.debtThreshold, R(3800)),
                                    partnerMultiplier)))
        belastbaarRendement ==
            RSub(RAdd(RMul(savingsPortion, Pct(Default(config.savingsRate, <<32, 25>>))),
                      RMul(investPortion, Pct(Default(config.investRate, R(6))))),
                 RMul(deductibleDebt, Pct(Default(config.debtRate, <<27, 10>>))))
        rendementsgrondslag == RSub(RAdd(savingsPortion, investPortion), deductibleDebt)
    IN IF RLe(totalWealth, Zero) \/ RLe(belastbaarRendement, Zero)
          \/ RLe(rendementsgrondslag,
                 RMul(Default(config.exemption, R(59357)), partnerMultiplier))
       THEN Zero
       ELSE MathMax(Zero, RMul(belastbaarRendement,
                               Pct(Default(config.taxRate, R(36)))))

calcCurrentSystem(portfolioValue, actualReturn, config) ==
    LET taxRate == Default(config.taxRate, R(36))
        exemption == Default(config.exemption, R(59357))
        debtThreshold == Default(config.debtThreshold, R(3800))
        savingsRate == Default(config.savingsRate, <<32, 25>>)
        investRate == Default(config.investRate, R(6))
        debtRate == Default(config.debtRate, <<27, 10>>)
        allocSavings == Default(config.allocSavings, Zero)
        allocInvest == Default(config.allocInvest, R(100))
        allocDebt == Default(config.allocDebt, Zero)
        totalWealth == MathMax(Zero, portfolioValue)
        partnerMultiplier == getPartnerMultiplier(config)
        effectiveExemption == RMul(exemption, partnerMultiplier)
        effectiveDebtThreshold == RMul(debtThreshold, partnerMultiplier)
        shares == normalizeAllocations(allocSavings, allocInvest, allocDebt)
        savingsPortion == RMul(totalWealth, shares.savingsShare)
        investPortion == RMul(totalWealth, shares.investShare)
        debtPortion == RMul(totalWealth, shares.debtShare)
        deductibleDebt == MathMax(Zero, RSub(debtPortion, effectiveDebtThreshold))
        belastbaarRendement ==
            RSub(RAdd(RMul(savingsPortion, Pct(savingsRate)),
                      RMul(investPortion, Pct(investRate))),
                 RMul(deductibleDebt, Pct(debtRate)))
        rendementsgrondslag == RSub(RAdd(savingsPortion, investPortion), deductibleDebt)
        grondslagSparenBeleggen ==
            MathMax(Zero, RSub(rendementsgrondslag, effectiveExemption))
        aandeelInRendementsgrondslag ==
            MathMin(One, RDiv(grondslagSparenBeleggen, rendementsgrondslag))
        voordeelUitSparenBeleggen ==
            RMul(belastbaarRendement, aandeelInRendementsgrondslag)
        tax == RMul(voordeelUitSparenBeleggen, Pct(taxRate))
    IN IF RLe(totalWealth, Zero) THEN Zero
       ELSE IF shares.savingsShare = Zero /\ shares.investShare = Zero
               /\ shares.debtShare = Zero THEN Zero
       ELSE IF RLe(belastbaarRendement, Zero) THEN Zero
       ELSE IF RLe(rendementsgrondslag, Zero) THEN Zero
       ELSE IF RLe(grondslagSparenBeleggen, Zero) THEN Zero
       ELSE MathMax(Zero, tax)

calcFutureIncomeSingle(actualReturn, config) ==
    LET freeReturn == Default(config.freeReturn, R(1800))
    IN IF RLe(actualReturn, Zero) THEN actualReturn
       ELSE MathMax(Zero, RSub(actualReturn, freeReturn))

calcFutureIncomeFloored(actualReturn, config) ==
    MathMax(Zero, RSub(actualReturn,
                       RMul(Default(config.freeReturn, R(1800)),
                            getPartnerMultiplier(config))))

calcFutureIncomeNoAllowance(actualReturn, config) == actualReturn

calcFutureIncome(actualReturn, config) ==
    LET freeReturn == Default(config.freeReturn, R(1800))
        partnerMultiplier == getPartnerMultiplier(config)
        effectiveFreeReturn == RMul(freeReturn, partnerMultiplier)
    IN IF RLe(actualReturn, Zero) THEN actualReturn
       ELSE MathMax(Zero, RSub(actualReturn, effectiveFreeReturn))

calcFutureSystemNoRate(portfolioValue, taxableIncome, config) ==
    MathMax(Zero, taxableIncome)

calcFutureSystem(portfolioValue, taxableIncome, config) ==
    LET taxRate == Default(config.taxRate, R(36))
        tax == RMul(MathMax(Zero, taxableIncome), Pct(taxRate))
    IN MathMax(Zero, tax)

getDefaultConfigsFutureBare ==
    [noTax |-> <<>>,
     old |-> [deemedReturn |-> R(4), taxRate |-> R(30), exemption |-> R(21139),
              partnerMultiplier |-> One],
     oldMethod |-> [taxRate |-> R(31), exemption |-> R(50650),
                    savingsRate |-> <<-1, 100>>, investRate |-> <<553, 100>>,
                    bracket1Limit |-> R(50651), bracket2Limit |-> R(962351),
                    partnerMultiplier |-> One],
     current |-> [taxRate |-> R(36), exemption |-> R(59357),
                  debtThreshold |-> R(3800), savingsRate |-> <<32, 25>>,
                  investRate |-> R(6), debtRate |-> <<27, 10>>,
                  allocSavings |-> Zero, allocInvest |-> R(100),
                  allocDebt |-> Zero, partnerMultiplier |-> One],
     future |-> [taxRate |-> R(36), freeReturn |-> R(1800),
                 lossThreshold |-> Zero, partnerMultiplier |-> Undefined]]

getDefaultConfigs ==
    [noTax |-> <<>>,
     old |-> [deemedReturn |-> R(4), taxRate |-> R(30), exemption |-> R(21139),
              partnerMultiplier |-> One],
     oldMethod |-> [taxRate |-> R(31), exemption |-> R(50650),
                    savingsRate |-> <<-1, 100>>, investRate |-> <<553, 100>>,
                    bracket1Limit |-> R(50651), bracket2Limit |-> R(962351),
                    partnerMultiplier |-> One],
     current |-> [taxRate |-> R(36), exemption |-> R(59357),
                  debtThreshold |-> R(3800), savingsRate |-> <<32, 25>>,
                  investRate |-> R(6), debtRate |-> <<27, 10>>,
                  allocSavings |-> Zero, allocInvest |-> R(100),
                  allocDebt |-> Zero, partnerMultiplier |-> One],
     future |-> [taxRate |-> R(36), freeReturn |-> R(1800),
                 lossThreshold |-> R(500), partnerMultiplier |-> One]]

-----------------------------------------------------------------------------
(* simulation.js: runSimulation *)

systems == <<"noTax", "old", "current", "future">>

isMap == contributionsByYear.isMap

Lookup(map, key) == IF key \in DOMAIN map THEN map[key] ELSE Undefined

Deposit(yearKey) ==
    IF isMap
    THEN MathMax(Zero, OrElse(ToNumber(Lookup(contributionsByYear.byYear, yearKey)), Zero))
    ELSE MathMax(Zero, OrElse(ToNumber(contributionsByYear.amount), Zero))

AnnualFactor(ret) == RAdd(One, Pct(ret))

MonthlyFactorKept(annualFactor) ==
    IF RLe(annualFactor, Zero) THEN One ELSE MathPowTwelfth(annualFactor)

MonthlyFactor(annualFactor) ==
    IF RLe(annualFactor, Zero) THEN Zero ELSE MathPowTwelfth(annualFactor)

monthlySteps[value \in Rat, monthlyFactor \in Rat, deposit \in Rat, m \in Nat] ==
    IF m = 0 THEN value
    ELSE monthlySteps[RAdd(RMul(value, monthlyFactor), deposit),
                      monthlyFactor, deposit, m - 1]

MonthlySteps(value, monthlyFactor, deposit, m) ==
    monthlySteps[value, monthlyFactor, deposit, m]

ApplyReturn(prevValue, deposit, annualFactor) ==
    IF RLe(deposit, Zero)
    THEN RMul(prevValue, annualFactor)
    ELSE MonthlySteps(prevValue, MonthlyFactor(annualFactor), deposit, 12)

ReturnAmountGross(valueAfterReturn, prevValue, deposit) ==
    RSub(valueAfterReturn, prevValue)

ReturnAmountOneDeposit(valueAfterReturn, prevValue, deposit) ==
    RSub(RSub(valueAfterReturn, prevValue), deposit)

ReturnAmount(valueAfterReturn, prevValue, deposit) ==
    RSub(RSub(valueAfterReturn, prevValue), RMul(deposit, R(12)))

OldCaseEndOfYear(prevValue, valueAfterReturn, returnAmount, config) ==
    calcOldSystem(valueAfterReturn, returnAmount, config)

(* case 'old': the tax base is the wealth at the start of the year *)
OldCase(prevValue, valueAfterReturn, returnAmount, config) ==
    calcOldSystem(prevValue, returnAmount, config)

CurrentCaseAfterLoss(prevValue, valueAfterReturn, returnAmount, config) ==
    calcCurrentSystem(RSub(prevValue, futureCarryForwardLoss), returnAmount, config)

(* case 'current': the same reference date *)
CurrentCase(prevValue, valueAfterReturn, returnAmount, config) ==
    calcCurrentSystem(prevValue, returnAmount, config)

LossThreshold(config) ==
    LET raw == ToNumber(config.partnerMultiplier)
        partnerMultiplier == IF raw # NaN /\ RLt(One, raw) THEN R(2) ELSE One
    IN RMul(OrElse(ToNumber(config.lossThreshold), R(500)), partnerMultiplier)

LossUsedWhole(carry, incomeBeforeLossSetoff) == incomeBeforeLossSetoff

LossUsedMax(carry, incomeBeforeLossSetoff) ==
    MathMax(carry, incomeBeforeLossSetoff)

LossUsed(carry, incomeBeforeLossSetoff) ==
    MathMin(carry, incomeBeforeLossSetoff)

FutureCase(valueAfterReturn, returnAmount, carry, config) ==
    LET incomeBeforeLossSetoff == calcFutureIncome(returnAmount, config)
        lossThreshold == LossThreshold(config)
        recognisedLoss == MathAbs(incomeBeforeLossSetoff)
        lossUsed == LossUsed(carry, incomeBeforeLossSetoff)
        taxableIncome == RSub(incomeBeforeLossSetoff, lossUsed)
    IN IF RLt(incomeBeforeLossSetoff, Zero)
       THEN [tax |-> Zero,
             carry |-> IF RLt(lossThreshold, recognisedLoss)
                       THEN RAdd(carry, recognisedLoss) ELSE carry,
             incomeBeforeLossSetoff |-> incomeBeforeLossSetoff,
             lossThreshold |-> lossThreshold, lossUsed |-> Zero]
       ELSE IF incomeBeforeLossSetoff = Zero
       THEN [tax |-> Zero, carry |-> carry,
             incomeBeforeLossSetoff |-> incomeBeforeLossSetoff,
             lossThreshold |-> lossThreshold, lossUsed |-> Zero]
       ELSE [tax |-> calcFutureSystem(valueAfterReturn, taxableIncome, config),
             carry |-> RSub(carry, lossUsed),
             incomeBeforeLossSetoff |-> incomeBeforeLossSetoff,
             lossThreshold |-> lossThreshold, lossUsed |-> lossUsed]

ClampTaxNonNegative(tax, valueAfterReturn) == MathMax(Zero, tax)

ClampTaxUnclamped(tax, valueAfterReturn) == tax

ClampTax(tax, valueAfterReturn) == MathMin(tax, MathMax(Zero, valueAfterReturn))

PrevCumTaxForgotten(cum) == Zero

PrevCumTax(cum) == IF Len(cum) > 0 THEN cum[Len(cum)] ELSE Zero

InitialSeriesTwice(capital) == <<capital, capital>>

InitialSeries(capital) == <<capital>>

LoopGuardShort == i < Len(returns) - 1

LoopGuard == i < Len(returns)

sys == systems[sysIdx]

InitialCarryForwardLossKept == futureCarryForwardLoss

(* line 37: let futureCarryForwardLoss = 0 *)
InitialCarryForwardLoss == Zero

(* lines 25-43: runSimulation is entered with its arguments; the tracking   *)
(* arrays, the carried loss and the loop's locals are created              *)
Invoke(run) ==
    /\ pc' = "loop"
    /\ startCapital' = run.startCapital
    /\ returns' = run.returns
    /\ configs' = run.configs
    /\ contributionsByYear' = run.contributionsByYear
    /\ i' = 0
    /\ sysIdx' = 1
    /\ futureCarryForwardLoss' = InitialCarryForwardLoss
    /\ portfolioValues' = [x \in {"noTax", "old", "current", "future"} |->
                              InitialSeries(run.startCapital)]
    /\ annualTax' = [x \in {"noTax", "old", "current", "future"} |-> <<>>]
    /\ cumulativeTax' = [x \in {"noTax", "old", "current", "future"} |-> <<>>]
    /\ locals' = [x \in {"noTax", "old", "current", "future"} |-> <<>>]
    /\ futureLocals' = <<>>
    /\ UNCHANGED <<labels, taxLabels>>
    /\ UNCHANGED calcVars

(* the first call of runSimulation *)
Initialize(run) ==
    /\ pc = "idle"
    /\ Invoke(run)

(* a further call of runSimulation, made after the previous call returned; *)
(* the caller still holds the labels the previous call returned            *)
Reinvoke(run) ==
    /\ pc = "done"
    /\ Invoke(run)

(* lines 55-131: one pass of the inner loop body for systems[sysIdx], with *)
(* the tax tax0 computed by the switch and the carried loss it leaves      *)
LoopBody(tax0, carry) ==
    \E deposit \in {Deposit(returns[i + 1].year)},
       prevValue \in {portfolioValues[sys][i + 1]} :
    \E valueAfterReturn \in
           {ApplyReturn(prevValue, deposit, AnnualFactor(returns[i + 1].return))},
       taxOfSwitch \in {tax0} :
    \E tax \in {ClampTax(taxOfSwitch, valueAfterReturn)} :
       /\ portfolioValues' =
              [portfolioValues EXCEPT ![sys] = Append(@, RSub(valueAfterReturn, tax))]
       /\ annualTax' = [annualTax EXCEPT ![sys] = Append(@, tax)]
       /\ cumulativeTax' =
              [cumulativeTax EXCEPT ![sys] = Append(@, RAdd(PrevCumTax(@), tax))]
       /\ futureCarryForwardLoss' = carry
       /\ locals' = [locals EXCEPT ![sys] =
              Append(@, [deposit |-> deposit, prevValue |-> prevValue,
                         valueAfterReturn |-> valueAfterReturn,
                         returnAmount |->
                             ReturnAmount(valueAfterReturn, prevValue, deposit),
                         tax |-> taxOfSwitch])]
       /\ IF sysIdx < Len(systems)
          THEN sysIdx' = sysIdx + 1 /\ i' = i
          ELSE sysIdx' = 1 /\ i' = i + 1
       /\ UNCHANGED <<pc, labels, taxLabels>>
       /\ UNCHANGED argVars
       /\ UNCHANGED calcVars

(* the loop body's valueAfterReturn and returnAmount for systems[sysIdx] *)
CurValueAfterReturn ==
    ApplyReturn(portfolioValues[sys][i + 1], Deposit(returns[i + 1].year),
                AnnualFactor(returns[i + 1].return))

CurReturnAmount ==
    ReturnAmount(CurValueAfterReturn, portfolioValues[sys][i + 1],
                 Deposit(returns[i + 1].year))

StepNoTax ==
    /\ pc = "loop" /\ LoopGuard /\ sys = "noTax"
    /\ LoopBody(calcNoTax, futureCarryForwardLoss)
    /\ UNCHANGED futureLocals

StepOld ==
    /\ pc = "loop" /\ LoopGuard /\ sys = "old"
    /\ \E valueAfterReturn \in {CurValueAfterReturn},
          returnAmount \in {CurReturnAmount} :
          LoopBody(OldCase(portfolioValues[sys][i + 1], valueAfterReturn,
                           returnAmount, configs.old),
                   futureCarryForwardLoss)
    /\ UNCHANGED futureLocals

StepCurrent ==
    /\ pc = "loop" /\ LoopGuard /\ sys = "current"
    /\ \E valueAfterReturn \in {CurValueAfterReturn},
          returnAmount \in {CurReturnAmount} :
          LoopBody(CurrentCase(portfolioValues[sys][i + 1], valueAfterReturn,
                               returnAmount, configs.current),
                   futureCarryForwardLoss)
    /\ UNCHANGED futureLocals

StepFuture ==
    /\ pc = "loop" /\ LoopGuard /\ sys = "future"
    /\ \E valueAfterReturn \in {CurValueAfterReturn} :
       \E returnAmount \in {ReturnAmount(valueAfterReturn, portfolioValues[sys][i + 1],
                                         Deposit(returns[i + 1].year))} :
       \E f \in {FutureCase(valueAfterReturn, returnAmount,
                            futureCarryForwardLoss, configs.future)} :
          /\ LoopBody(f.tax, f.carry)
          /\ futureLocals' = Append(futureLocals,
                 [incomeBeforeLossSetoff |-> f.incomeBeforeLossSetoff,
                  lossThreshold |-> f.lossThreshold,
                  lossUsed |-> f.lossUsed,
                  carryBefore |-> futureCarryForwardLoss,
                  carryAfter |-> f.carry])

(* lines 134-145: the labels are built and the result is returned *)
Return ==
    /\ pc = "loop" /\ ~LoopGuard
    /\ pc' = "done"
    /\ labels' = <<IF Len(returns) > 0
                   THEN [text |-> "", year |-> returns[1].year - 1]
                   ELSE [text |-> "Start", year |-> 0]>>
                 \o [k \in 1..Len(returns) |-> [text |-> "", year |-> returns[k].year]]
    /\ taxLabels' = [k \in 1..Len(returns) |-> returns[k].year]
    /\ UNCHANGED <<i, sysIdx, portfolioValues, annualTax, cumulativeTax,
                   futureCarryForwardLoss, locals, futureLocals>>
    /\ UNCHANGED argVars
    /\ UNCHANGED calcVars

-----------------------------------------------------------------------------
(* Direct calls of the exported calculators *)

CallNoTax ==
    /\ pc = "idle"
    /\ pc' = "returned"
    /\ calcFn' = "calcNoTax"
    /\ calcResult' = calcNoTax
    /\ UNCHANGED <<calcValue, calcAmount, calcConfig>>
    /\ UNCHANGED simVars
    /\ UNCHANGED argVars

CallGetDefaultConfigs ==
    /\ pc = "idle"
    /\ pc' = "returned"
    /\ calcFn' = "getDefaultConfigs"
    /\ calcResult' = getDefaultConfigs
    /\ UNCHANGED <<calcValue, calcAmount, calcConfig>>
    /\ UNCHANGED simVars
    /\ UNCHANGED argVars

CallOld(w, a, c) ==
    /\ pc = "idle"
    /\ pc' = "returned"
    /\ calcFn' = "calcOldSystem"
    /\ calcValue' = w
    /\ calcAmount' = a
    /\ calcConfig' = c
    /\ calcResult' = calcOldSystem(w, a, c)
    /\ UNCHANGED simVars
    /\ UNCHANGED argVars

CallCurrent(w, a, c) ==
    /\ pc = "idle"
    /\ pc' = "returned"
    /\ calcFn' = "calcCurrentSystem"
    /\ calcValue' = w
    /\ calcAmount' = a
    /\ calcConfig' = c
    /\ calcResult' = calcCurrentSystem(w, a, c)
    /\ UNCHANGED simVars
    /\ UNCHANGED argVars

CallFutureIncome(a, c) ==
    /\ pc = "idle"
    /\ pc' = "returned"
    /\ calcFn' = "calcFutureIncome"
    /\ calcAmount' = a
    /\ calcConfig' = c
    /\ calcResult' = calcFutureIncome(a, c)
    /\ UNCHANGED calcValue
    /\ UNCHANGED simVars
    /\ UNCHANGED argVars

CallFutureSystem(w, a, c) ==
    /\ pc = "idle"
    /\ pc' = "returned"
    /\ calcFn' = "calcFutureSystem"
    /\ calcValue' = w
    /\ calcAmount' = a
    /\ calcConfig' = c
    /\ calcResult' = calcFutureSystem(w, a, c)
    /\ UNCHANGED simVars
    /\ UNCHANGED argVars

-----------------------------------------------------------------------------
(* Inputs *)

MaxYears == 2

RootHalf == <<-102375, 1024>>

ReturnPcts == {R(-200), R(-100), R(-50), Zero, R(100), RootHalf}

StartCapitals == {Zero, R(1000)}

OldA == [deemedReturn |-> R(50), taxRate |-> R(50), exemption |-> R(600),
         partnerMultiplier |-> One]

OldB == [deemedReturn |-> R(100), taxRate |-> R(100), exemption |-> Zero,
         partnerMultiplier |-> One]

CurrentA == [taxRate |-> R(50), exemption |-> R(600), debtThreshold |-> R(100),
             savingsRate |-> R(10), investRate |-> R(50), debtRate |-> R(50),
             allocSavings |-> Zero, allocInvest |-> R(100), allocDebt |-> Zero,
             partnerMultiplier |-> One]

CurrentB == [taxRate |-> R(50), exemption |-> R(100), debtThreshold |-> R(100),
             savingsRate |-> R(50), investRate |-> R(50), debtRate |-> R(50),
             allocSavings |-> R(100), allocInvest |-> R(200), allocDebt |-> R(100),
             partnerMultiplier |-> One]

CurrentC == [taxRate |-> R(50), exemption |-> Zero, debtThreshold |-> Zero,
             savingsRate |-> R(-50), investRate |-> R(50), debtRate |-> R(50),
             allocSavings |-> R(100), allocInvest |-> Zero, allocDebt |-> Zero,
             partnerMultiplier |-> One]

CurrentD == [CurrentA EXCEPT !.allocInvest = Zero]

CurrentE == [CurrentB EXCEPT !.allocSavings = R(-100), !.allocDebt = R(-100)]

CurrentG == [CurrentB EXCEPT !.allocSavings = Zero, !.allocInvest = Zero]

CurrentF == [CurrentB EXCEPT !.allocSavings = R(-100), !.allocInvest = Zero,
                             !.allocDebt = R(-50)]

FutureA == [taxRate |-> R(50), freeReturn |-> R(100), lossThreshold |-> R(300),
            partnerMultiplier |-> One]

FutureB == [taxRate |-> R(100), freeReturn |-> Zero, lossThreshold |-> Zero,
            partnerMultiplier |-> One]

WithPartner(c) == [c EXCEPT !.partnerMultiplier = R(2)]

ConfigBundles ==
    {[noTax |-> <<>>, old |-> OldA, current |-> CurrentA, future |-> FutureA],
     [noTax |-> <<>>, old |-> WithPartner(OldA), current |-> WithPartner(CurrentB),
      future |-> WithPartner(FutureA)],
     [noTax |-> <<>>, old |-> OldB, current |-> CurrentB, future |-> FutureB],
     [noTax |-> <<>>, old |-> OldA, current |-> CurrentC, future |-> FutureB],
     [noTax |-> <<>>, old |-> OldB, current |-> CurrentD, future |-> FutureA]}

Flat(x) == [isMap |-> FALSE, amount |-> x, byYear |-> <<>>]

ByYear(m) == [isMap |-> TRUE, amount |-> Zero, byYear |-> m]

Contributions ==
    {Flat(Zero), Flat(R(10)), Flat(R(-5)),
     ByYear((2020 :> R(10))), ByYear((2020 :> Zero) @@ (2021 :> R(1000)))}

SeriesOf(rs) == [k \in DOMAIN rs |-> [year |-> 2019 + k, return |-> rs[k]]]

(* a year at RootHalf divides the wealth by 4096: one such year per series *)
(* keeps every numerator and denominator within the integers               *)
ReturnSeries ==
    UNION {{SeriesOf(rs) : rs \in {x \in [1..n -> ReturnPcts] :
                                      Cardinality({k \in 1..n : x[k] = RootHalf}) <= 1}} :
           n \in 0..MaxYears}

(* the worked examples of the documentation: realistic amounts, one year *)
ExampleRuns ==
    {[startCapital |-> R(100000), returns |-> SeriesOf(<<r>>),
      configs |-> getDefaultConfigs, contributionsByYear |-> c] :
        r \in {R(20), R(-10), Zero}, c \in {Flat(Zero), Flat(R(1000))}}

(* a loss year followed by a gain below the tax-free return, by a gain the  *)
(* carried loss covers in part, and by a gain it covers in full            *)
CarryRuns ==
    {[startCapital |-> R(1000), returns |-> SeriesOf(<<R(-50), r>>),
      configs |-> [noTax |-> <<>>, old |-> OldA, current |-> CurrentB,
                   future |-> FutureA],
      contributionsByYear |-> Flat(Zero)] : r \in {R(10), R(300)}}

SmallRuns ==
    {[startCapital |-> sc, returns |-> rs, configs |-> b, contributionsByYear |-> c] :
        sc \in StartCapitals, rs \in ReturnSeries, b \in ConfigBundles,
        c \in Contributions}

(* Math.pow(annualFactor, 1/12) is evaluated only for deposit > 0; the runs *)
(* are those in which its value is rational                                *)
PowIsExact(run) ==
    \A k \in DOMAIN run.returns :
        LET d == IF run.contributionsByYear.isMap
                 THEN MathMax(Zero, OrElse(ToNumber(Lookup(run.contributionsByYear.byYear,
                                                    run.returns[k].year)), Zero))
                 ELSE MathMax(Zero, OrElse(ToNumber(run.contributionsByYear.amount), Zero))
            af == AnnualFactor(run.returns[k].return)
        IN RLt(Zero, d) /\ RLt(Zero, af) => HasTwelfthRoot(af)

Runs == {run \in SmallRuns \cup ExampleRuns \cup CarryRuns : PowIsExact(run)}

NoSeries == [x \in {"noTax", "old", "current", "future"} |-> <<>>]

Init ==
    /\ startCapital = Zero
    /\ returns = <<>>
    /\ configs = getDefaultConfigs
    /\ contributionsByYear = Flat(Zero)
    /\ pc = "idle"
    /\ i = 0
    /\ sysIdx = 1
    /\ portfolioValues = NoSeries
    /\ annualTax = NoSeries
    /\ cumulativeTax = NoSeries
    /\ futureCarryForwardLoss = Zero
    /\ labels = <<>>
    /\ taxLabels = <<>>
    /\ locals = NoSeries
    /\ futureLocals = <<>>
    /\ calcFn = "none"
    /\ calcValue = Zero
    /\ calcAmount = Zero
    /\ calcConfig = <<>>
    /\ calcResult = Zero

Next ==
    \/ \E run \in Runs : Initialize(run)
    \/ StepNoTax
    \/ StepOld
    \/ StepCurrent
    \/ StepFuture
    \/ Return

Spec == Init /\ [][Next]_vars

(* a call that has started runs to its end: the loop is synchronous and    *)
(* nothing suspends it                                                     *)
RunStep == StepNoTax \/ StepOld \/ StepCurrent \/ StepFuture \/ Return

LiveSpec == Spec /\ WF_vars(RunStep)

-----------------------------------------------------------------------------
(* runSimulation called again and again *)

RepeatRuns ==
    {run \in
        {[startCapital |-> R(1000), returns |-> rs, configs |-> b,
          contributionsByYear |-> c] :
            rs \in {x \in ReturnSeries :
                       \A k \in DOMAIN x : x[k].return \in {R(-50), Zero, R(100)}},
            b \in {[noTax |-> <<>>, old |-> OldA, current |-> CurrentB,
                    future |-> FutureA],
                   [noTax |-> <<>>, old |-> OldB, current |-> CurrentB,
                    future |-> FutureB]},
            c \in {Flat(Zero), Flat(R(10))}} :
        PowIsExact(run)}
    \cup CarryRuns

RepeatNext ==
    \/ \E run \in RepeatRuns : Initialize(run)
    \/ \E run \in RepeatRuns : Reinvoke(run)
    \/ StepNoTax
    \/ StepOld
    \/ StepCurrent
    \/ StepFuture
    \/ Return

RepeatSpec == Init /\ [][RepeatNext]_vars

-----------------------------------------------------------------------------
(* runSimulation called with contribution amounts that are not deposits:   *)
(* negative, not finite, not a number, or absent for the simulated year    *)

MalformedAmounts == {R(-5), NaN, PosInf, NegInf, NonNumeric, Null}

MalformedContributions ==
    {Flat(a) : a \in MalformedAmounts}
    \cup {ByYear((2020 :> a)) : a \in MalformedAmounts \cup {Undefined}}
    \cup {ByYear((2021 :> R(10)))}

ContribRuns ==
    {run \in
        {[startCapital |-> sc, returns |-> SeriesOf(<<r>>),
          configs |-> [noTax |-> <<>>, old |-> OldA, current |-> CurrentB,
                       future |-> FutureA],
          contributionsByYear |-> c] :
            sc \in StartCapitals, r \in {R(-50), Zero, R(100)},
            c \in MalformedContributions \cup {Flat(R(10))}} :
        PowIsExact(run)}

ContribNext ==
    \/ \E run \in ContribRuns : Initialize(run)
    \/ StepNoTax
    \/ StepOld
    \/ StepCurrent
    \/ StepFuture
    \/ Return

ContribSpec == Init /\ [][ContribNext]_vars

-----------------------------------------------------------------------------
(* The calculators called directly, on arguments drawn from bounded sets *)

CalcValues == {R(-500), Zero, R(500), R(1000), R(1500), R(100000)}

CalcAmounts == {R(-500), Zero, R(50), R(2000)}

Multipliers == {Zero, One, <<3, 2>>, R(2), R(3)}

WithMultiplier(c, m) == [c EXCEPT !.partnerMultiplier = m]

CalcOldConfigs ==
    {WithMultiplier(c, m) : c \in {OldA, OldB, getDefaultConfigs.old}, m \in Multipliers}

CalcCurrentConfigs ==
    {WithMultiplier(c, m) :
        c \in {CurrentA, CurrentB, CurrentC, CurrentD, CurrentE, CurrentF,
               CurrentG, getDefaultConfigs.current},
        m \in Multipliers}

CalcFutureConfigs ==
    {WithMultiplier(c, m) : c \in {FutureA, FutureB, getDefaultConfigs.future},
                            m \in Multipliers}

CalcNext ==
    \/ CallNoTax
    \/ CallGetDefaultConfigs
    \/ \E w \in CalcValues, a \in CalcAmounts, c \in CalcOldConfigs : CallOld(w, a, c)
    \/ \E w \in CalcValues, a \in CalcAmounts, c \in CalcCurrentConfigs :
           CallCurrent(w, a, c)
    \/ \E a \in CalcAmounts, c \in CalcFutureConfigs : CallFutureIncome(a, c)
    \/ \E w \in CalcValues, a \in CalcAmounts, c \in CalcFutureConfigs :
           CallFutureSystem(w, a, c)

CalcSpec == Init /\ [][CalcNext]_vars

-----------------------------------------------------------------------------
(* The calculators and runSimulation given a config in which one numeric   *)
(* field is missing or is not a number                                     *)

MalformedValues == {Undefined, Null, NaN, NonNumeric}

(* the configs that differ from c in one field, which holds a malformed value *)
MalformedIn(c) ==
    {[c EXCEPT ![f] = m] : f \in DOMAIN c, m \in MalformedValues}

DefaultingRuns ==
    {[startCapital |-> R(1000), returns |-> SeriesOf(<<r>>),
      configs |-> [noTax |-> <<>>, old |-> OldA, current |-> CurrentB,
                   future |-> c],
      contributionsByYear |-> Flat(Zero)] :
        r \in {R(-50), R(100)}, c \in MalformedIn(FutureA)}

DefaultingNext ==
    \/ \E w \in CalcValues, a \in CalcAmounts, c \in MalformedIn(OldA) :
           CallOld(w, a, c)
    \/ \E w \in CalcValues, a \in CalcAmounts, c \in MalformedIn(CurrentB) :
           CallCurrent(w, a, c)
    \/ \E a \in CalcAmounts, c \in MalformedIn(FutureA) : CallFutureIncome(a, c)
    \/ \E w \in CalcValues, a \in CalcAmounts, c \in MalformedIn(FutureA) :
           CallFutureSystem(w, a, c)
    \/ \E run \in DefaultingRuns : Initialize(run)
    \/ StepNoTax
    \/ StepOld
    \/ StepCurrent
    \/ StepFuture
    \/ Return

DefaultingSpec == Init /\ [][DefaultingNext]_vars

-----------------------------------------------------------------------------
(* app.js: buildContributionsByYear, and getCpiForYear of marketData.js *)

(* the last years of the CPI table *)
cpiData ==
    (2020 :> <<13, 10>>) @@ (2021 :> <<27, 10>>) @@ (2022 :> R(10))
    @@ (2023 :> <<19, 5>>) @@ (2024 :> <<33, 10>>) @@ (2025 :> <<33, 10>>)

getCpiForYearNoFallback(year) ==
    IF year \in DOMAIN cpiData THEN cpiData[year] ELSE Undefined

getCpiForYear(year) == IF year \in DOMAIN cpiData THEN cpiData[year] ELSE Zero

(* Math.round: the nearest integer, a half rounds up *)
MathRound(x) ==
    LET y == RAdd(x, <<1, 2>>) IN IF IsFinite(y) THEN R(y[1] \div y[2]) ELSE y

IndexationAppliesAlways(cpiEnabled, y, startYear) == TRUE

IndexationApplies(cpiEnabled, y, startYear) == cpiEnabled /\ y > startYear

buildContributionsByYear(baseAmount, startYear, endYear, cpiEnabled) ==
    LET amount[y \in startYear..endYear] ==
            LET before == IF y = startYear THEN baseAmount ELSE amount[y - 1]
            IN IF IndexationApplies(cpiEnabled, y, startYear)
               THEN RMul(before, RAdd(One, RDiv(getCpiForYear(y), R(100))))
               ELSE before
    IN [y \in startYear..endYear |->
           RDiv(MathRound(RMul(amount[y], R(100))), R(100))]

CallBuildContributionsByYear(baseAmount, startYear, endYear, cpiEnabled) ==
    /\ pc = "idle"
    /\ pc' = "returned"
    /\ calcFn' = "buildContributionsByYear"
    /\ calcValue' = baseAmount
    /\ calcConfig' = [startYear |-> startYear, endYear |-> endYear,
                      cpiEnabled |-> cpiEnabled]
    /\ calcResult' =
           buildContributionsByYear(baseAmount, startYear, endYear, cpiEnabled)
    /\ UNCHANGED calcAmount
    /\ UNCHANGED simVars
    /\ UNCHANGED argVars

BaseAmounts == {Zero, R(10), R(1000), <<2001, 200>>, <<1, 250>>}

ScheduleYears == 2023..2026

ScheduleNext ==
    \E baseAmount \in BaseAmounts, startYear \in ScheduleYears,
       endYear \in ScheduleYears, cpiEnabled \in BOOLEAN :
        CallBuildContributionsByYear(baseAmount, startYear, endYear, cpiEnabled)

ScheduleSpec == Init /\ [][ScheduleNext]_vars

-----------------------------------------------------------------------------
(* Properties *)

Regimes == {"noTax", "old", "current", "future"}

(* the deposit of year y (1-based) as runSimulation reads it *)
DepositOfYear(y) == Deposit(returns[y].year)

(* C1: for every regime and every simulated year, the recorded annual tax  *)
(* is at least 0 and at most max(0, wealthAfterReturn) of that year.       *)
C1_TaxWithinWealth ==
    \A x \in Regimes : \A y \in 1..Len(annualTax[x]) :
        /\ RLe(Zero, annualTax[x][y])
        /\ RLe(annualTax[x][y], MathMax(Zero, locals[x][y].valueAfterReturn))

(* a finished run in which the clamp lowered a regime's tax *)
C1_Witness ==
    /\ pc = "done"
    /\ \E x \in Regimes : \E y \in 1..Len(annualTax[x]) :
           RLt(annualTax[x][y], locals[x][y].tax)

(* C2: cumulativeTax[i] = cumulativeTax[i-1] + annualTax[i] with            *)
(* cumulativeTax[-1] = 0, for every regime and year, and the cumulative    *)
(* series never decreases.                                                 *)
C2_CumulativeIsRunningSum ==
    \A x \in Regimes :
        /\ Len(cumulativeTax[x]) = Len(annualTax[x])
        /\ \A y \in 1..Len(cumulativeTax[x]) :
               /\ cumulativeTax[x][y] =
                      RAdd(IF y = 1 THEN Zero ELSE cumulativeTax[x][y - 1],
                           annualTax[x][y])
               /\ y > 1 => RLe(cumulativeTax[x][y - 1], cumulativeTax[x][y])

(* a finished run in which a regime paid tax in two different years *)
C2_Witness ==
    /\ pc = "done"
    /\ \E x \in Regimes :
           /\ Len(annualTax[x]) >= 2
           /\ RLt(Zero, annualTax[x][1])
           /\ RLt(Zero, annualTax[x][2])

(* the series of a finished run over n years: wealth has n+1 entries and   *)
(* starts at the start capital, both tax series have n entries             *)
FullLength ==
    \A x \in Regimes :
        /\ Len(portfolioValues[x]) = Len(returns) + 1
        /\ portfolioValues[x][1] = startCapital
        /\ Len(annualTax[x]) = Len(returns)
        /\ Len(cumulativeTax[x]) = Len(returns)

(* C3: every call of runSimulation terminates, and when it does every      *)
(* entry of the return series has been processed.                          *)
C3_TerminatesFullLength == (pc = "loop") ~> (pc = "done" /\ FullLength)

(* a finished run over the longest return series *)
C3_Witness ==
    /\ pc = "done"
    /\ Len(returns) >= 2
    /\ FullLength

(* C4: a call with an empty return series returns, and its result holds no *)
(* tax entry and no simulated year for any regime.                         *)
C4_EmptySeriesEmptyResult ==
    (pc = "loop" /\ Len(returns) = 0) ~>
        (/\ pc = "done"
         /\ taxLabels = <<>>
         /\ \A x \in Regimes :
                /\ annualTax[x] = <<>>
                /\ cumulativeTax[x] = <<>>
                /\ portfolioValues[x] = <<startCapital>>)

(* a finished run over the empty series with a non-zero start capital *)
C4_Witness ==
    /\ pc = "done"
    /\ Len(returns) = 0
    /\ RLt(Zero, startCapital)
    /\ Len(labels) = 1

(* C5: in the NoTax regime, in a year without deposit the wealth is the    *)
(* previous wealth times (1 + return/100) and the tax is 0.                *)
C5_NoTaxCompounds ==
    \A y \in 1..Len(annualTax["noTax"]) :
        DepositOfYear(y) = Zero =>
            /\ portfolioValues["noTax"][y + 1] =
                   RMul(portfolioValues["noTax"][y],
                        RAdd(One, RDiv(returns[y].return, R(100))))
            /\ annualTax["noTax"][y] = Zero

(* a finished two-year run without deposits whose NoTax wealth moved *)
C5_Witness ==
    /\ pc = "done"
    /\ Len(returns) >= 2
    /\ \A y \in 1..Len(returns) : DepositOfYear(y) = Zero
    /\ RLt(Zero, portfolioValues["noTax"][3])
    /\ portfolioValues["noTax"][3] # portfolioValues["noTax"][2]
    /\ portfolioValues["noTax"][2] # portfolioValues["noTax"][1]

(* C6: in the Future regime, in a year with negative income before set-off *)
(* the tax is 0 and the carried loss grows by abs(income) exactly when     *)
(* that amount exceeds the configured lossThreshold (>= 0, 0 included)     *)
(* times the partner multiplier; otherwise it is unchanged.                *)
C6_LossBankedAboveConfiguredThreshold ==
    \A y \in 1..Len(futureLocals) :
        LET f == futureLocals[y]
            amount == MathAbs(f.incomeBeforeLossSetoff)
            threshold == RMul(configs.future.lossThreshold,
                              configs.future.partnerMultiplier)
        IN RLt(f.incomeBeforeLossSetoff, Zero)
           /\ RLe(Zero, configs.future.lossThreshold) =>
              /\ annualTax["future"][y] = Zero
              /\ f.carryAfter = IF RLt(threshold, amount)
                                THEN RAdd(f.carryBefore, amount)
                                ELSE f.carryBefore

(* C7: in a one-year run without deposits and with a positive return, the  *)
(* Future tax before the clamp is                                          *)
(* max(0, startCapital*r/100 - freeReturn*partnerMultiplier) * taxRate/100; *)
(* 100000 at +20% with freeReturn 1800 and taxRate 36 gives return 20000,  *)
(* income 18200 and tax 6552.                                              *)
C7_FutureTaxOneYear ==
    (Len(returns) = 1 /\ Len(locals["future"]) = 1
     /\ DepositOfYear(1) = Zero /\ RLt(Zero, returns[1].return)) =>
        /\ locals["future"][1].tax =
               RMul(MathMax(Zero,
                            RSub(RMul(startCapital, RDiv(returns[1].return, R(100))),
                                 RMul(configs.future.freeReturn,
                                      configs.future.partnerMultiplier))),
                    RDiv(configs.future.taxRate, R(100)))
        /\ (startCapital = R(100000) /\ returns[1].return = R(20)
            /\ configs.future.freeReturn = R(1800)
            /\ configs.future.taxRate = R(36)
            /\ configs.future.partnerMultiplier = One) =>
               /\ locals["future"][1].returnAmount = R(20000)
               /\ futureLocals[1].incomeBeforeLossSetoff = R(18200)
               /\ locals["future"][1].tax = R(6552)
               /\ annualTax["future"][1] = R(6552)

(* the documented example has been simulated *)
C7_Witness ==
    /\ pc = "done"
    /\ Len(returns) = 1
    /\ startCapital = R(100000)
    /\ returns[1].return = R(20)
    /\ DepositOfYear(1) = Zero
    /\ annualTax["future"] = <<R(6552)>>

(* C8: with a deposit d > 0 and an annual return of 0%, for every regime   *)
(* wealthAfterReturn = prevWealth + 12*d and the return amount is 0.       *)
C8_ZeroGrowthSumsDeposits ==
    \A x \in Regimes : \A y \in 1..Len(locals[x]) :
        (RLt(Zero, DepositOfYear(y)) /\ returns[y].return = Zero) =>
            /\ locals[x][y].valueAfterReturn =
                   RAdd(portfolioValues[x][y], RMul(R(12), DepositOfYear(y)))
            /\ locals[x][y].returnAmount = Zero

(* the documented example: 1000 a month at 0% adds 12000 *)
C8_Witness ==
    /\ pc = "done"
    /\ Len(returns) = 1
    /\ returns[1].return = Zero
    /\ DepositOfYear(1) = R(1000)
    /\ \A x \in Regimes :
           locals[x][1].valueAfterReturn = RAdd(startCapital, R(12000))

(* the config with partnerMultiplier 1 and its exemption doubled *)
OldDoubled(c) ==
    [c EXCEPT !.partnerMultiplier = One, !.exemption = RMul(R(2), @)]

(* the config with partnerMultiplier 1 and exemption, debtThreshold doubled *)
CurrentDoubled(c) ==
    [c EXCEPT !.partnerMultiplier = One, !.exemption = RMul(R(2), @),
              !.debtThreshold = RMul(R(2), @)]

(* C10: calcOldSystem and calcCurrentSystem with partnerMultiplier 2 give  *)
(* the tax of partnerMultiplier 1 with every exemption/threshold doubled,  *)
(* and whatever the configured value the multiplier acts as 1 or as 2.     *)
C10_PartnerDoublesThresholds ==
    /\ calcFn = "calcOldSystem" =>
           /\ calcConfig.partnerMultiplier = R(2) =>
                  calcResult = calcOldSystem(calcValue, calcAmount, OldDoubled(calcConfig))
           /\ \/ calcResult = calcOldSystem(calcValue, calcAmount,
                                            WithMultiplier(calcConfig, One))
              \/ calcResult = calcOldSystem(calcValue, calcAmount,
                                            OldDoubled(calcConfig))
    /\ calcFn = "calcCurrentSystem" =>
           /\ calcConfig.partnerMultiplier = R(2) =>
                  calcResult = calcCurrentSystem(calcValue, calcAmount,
                                                 CurrentDoubled(calcConfig))
           /\ \/ calcResult = calcCurrentSystem(calcValue, calcAmount,
                                                WithMultiplier(calcConfig, One))
              \/ calcResult = calcCurrentSystem(calcValue, calcAmount,
                                                CurrentDoubled(calcConfig))

(* a call with partnerMultiplier 2 whose tax differs from the tax of the   *)
(* same config with partnerMultiplier 1                                    *)
C10_Witness ==
    /\ calcFn = "calcCurrentSystem"
    /\ calcConfig.partnerMultiplier = R(2)
    /\ RLt(Zero, calcResult)
    /\ calcResult # calcCurrentSystem(calcValue, calcAmount,
                                      WithMultiplier(calcConfig, One))
    /\ RLt(Zero, calcConfig.allocDebt)

(* C11: in every simulated year the Old and the Current tax before the     *)
(* clamp is the calculator's result on the regime's wealth at the start of *)
(* the year (portfolioValues[sys][i]), not on valueAfterReturn.            *)
C11_TaxOnStartOfYearWealth ==
    /\ \A y \in 1..Len(locals["old"]) :
           /\ locals["old"][y].prevValue = portfolioValues["old"][y]
           /\ locals["old"][y].tax =
                  calcOldSystem(portfolioValues["old"][y],
                                locals["old"][y].returnAmount, configs.old)
    /\ \A y \in 1..Len(locals["current"]) :
           /\ locals["current"][y].prevValue = portfolioValues["current"][y]
           /\ locals["current"][y].tax =
                  calcCurrentSystem(portfolioValues["current"][y],
                                    locals["current"][y].returnAmount,
                                    configs.current)

(* a finished run with a year in which the Old and the Current tax on the  *)
(* start-of-year wealth differ from the tax on the end-of-year value       *)
C11_Witness ==
    /\ pc = "done"
    /\ \E y \in 1..Len(locals["old"]) :
           /\ RLt(Zero, locals["old"][y].tax)
           /\ locals["old"][y].tax #
                  calcOldSystem(locals["old"][y].valueAfterReturn,
                                locals["old"][y].returnAmount, configs.old)
    /\ \E y \in 1..Len(locals["current"]) :
           /\ RLt(Zero, locals["current"][y].tax)
           /\ locals["current"][y].tax #
                  calcCurrentSystem(locals["current"][y].valueAfterReturn,
                                    locals["current"][y].returnAmount,
                                    configs.current)

(* the Future tax rate and tax-free return of the run, as the calculators  *)
(* read them                                                               *)
FutureTaxRate == Default(configs.future.taxRate, R(36))

FutureFreeReturn ==
    RMul(Default(configs.future.freeReturn, R(1800)),
         getPartnerMultiplier(configs.future))

(* C18: in a Future year with positive income before set-off, the loss     *)
(* used is min(carried loss, income), the carried loss drops by the loss   *)
(* used, the tax before the clamp is (income - lossUsed) * taxRate/100;    *)
(* the tax is 0 when the carried loss covers the income and the carried    *)
(* loss is 0 after a year in which tax is due.                             *)
C18_PositiveIncomeSetOff ==
    \A y \in 1..Len(futureLocals) :
        LET f == futureLocals[y]
            tax == locals["future"][y].tax
        IN RLt(Zero, f.incomeBeforeLossSetoff) =>
               /\ f.lossUsed = MathMin(f.carryBefore, f.incomeBeforeLossSetoff)
               /\ f.carryAfter = RSub(f.carryBefore, f.lossUsed)
               /\ tax = RMul(RSub(f.incomeBeforeLossSetoff, f.lossUsed),
                             RDiv(FutureTaxRate, R(100)))
               /\ RLe(f.incomeBeforeLossSetoff, f.carryBefore) =>
                      tax = Zero /\ annualTax["future"][y] = Zero
               /\ (RLt(Zero, tax) \/ RLt(Zero, annualTax["future"][y])) =>
                      f.carryAfter = Zero

(* a finished run whose second year's income is larger than the loss       *)
(* carried from the first: the loss is used up and the rest is taxed       *)
C18_Witness ==
    /\ pc = "done"
    /\ Len(futureLocals) = 2
    /\ RLt(Zero, futureLocals[2].carryBefore)
    /\ RLt(futureLocals[2].carryBefore, futureLocals[2].incomeBeforeLossSetoff)
    /\ futureLocals[2].carryAfter = Zero
    /\ RLt(Zero, annualTax["future"][2])

(* C19: in a Future year whose income before set-off is 0 (a zero return,  *)
(* or a positive return of at most freeReturn * partnerMultiplier) the tax *)
(* is 0 and the carried loss is unchanged: nothing consumed, nothing       *)
(* banked.                                                                 *)
C19_ZeroIncomeNoChange ==
    \A y \in 1..Len(futureLocals) :
        LET f == futureLocals[y]
            returnAmount == locals["future"][y].returnAmount
        IN /\ (returnAmount = Zero
               \/ (RLt(Zero, returnAmount) /\ RLe(returnAmount, FutureFreeReturn)))
                  => f.incomeBeforeLossSetoff = Zero
           /\ f.incomeBeforeLossSetoff = Zero =>
                  /\ locals["future"][y].tax = Zero
                  /\ annualTax["future"][y] = Zero
                  /\ f.lossUsed = Zero
                  /\ f.carryAfter = f.carryBefore

(* a finished run whose second year has a positive return within the       *)
(* tax-free return while a loss is carried                                 *)
C19_Witness ==
    /\ pc = "done"
    /\ Len(futureLocals) = 2
    /\ RLt(Zero, locals["future"][2].returnAmount)
    /\ futureLocals[2].incomeBeforeLossSetoff = Zero
    /\ RLt(Zero, futureLocals[2].carryBefore)
    /\ futureLocals[2].carryAfter = futureLocals[2].carryBefore

(* C20: the carried loss of the Future regime is >= 0 when the run starts  *)
(* and after every year.                                                   *)
C20_CarriedLossNonNegative ==
    /\ RLe(Zero, futureCarryForwardLoss)
    /\ \A y \in 1..Len(futureLocals) :
           /\ RLe(Zero, futureLocals[y].carryBefore)
           /\ RLe(Zero, futureLocals[y].carryAfter)
    /\ Len(futureLocals) >= 1 => futureLocals[1].carryBefore = Zero

(* a finished run in which a loss was banked and then used in part *)
C20_Witness ==
    /\ pc = "done"
    /\ Len(futureLocals) = 2
    /\ RLt(Zero, futureLocals[1].carryAfter)
    /\ RLt(Zero, futureLocals[2].lossUsed)
    /\ RLt(Zero, futureCarryForwardLoss)
    /\ RLt(futureCarryForwardLoss, futureLocals[2].carryBefore)

(* one regime simulated on its own: the loop body of runSimulation for the *)
(* single system x with its config, over the years 1..Len(returns); entry  *)
(* k holds the wealth, tax, cumulative tax and carried loss after year k   *)
RegimeAlone(x, config) ==
    LET run[k \in 0..Len(returns)] ==
            IF k = 0
            THEN [wealth |-> startCapital, annual |-> Zero, cum |-> Zero,
                  carry |-> Zero]
            ELSE LET p == run[k - 1]
                     deposit == Deposit(returns[k].year)
                     valueAfterReturn ==
                         ApplyReturn(p.wealth, deposit,
                                     AnnualFactor(returns[k].return))
                     returnAmount ==
                         ReturnAmount(valueAfterReturn, p.wealth, deposit)
                     f == FutureCase(valueAfterReturn, returnAmount, p.carry, config)
                     tax0 == CASE x = "noTax" -> calcNoTax
                               [] x = "old" ->
                                    calcOldSystem(p.wealth, returnAmount, config)
                               [] x = "current" ->
                                    calcCurrentSystem(p.wealth, returnAmount, config)
                               [] x = "future" -> f.tax
                     tax == ClampTax(tax0, valueAfterReturn)
                 IN [wealth |-> RSub(valueAfterReturn, tax),
                     annual |-> tax,
                     cum |-> RAdd(p.cum, tax),
                     carry |-> IF x = "future" THEN f.carry ELSE p.carry]
    IN run

(* C12: every regime's wealth, annual-tax and cumulative-tax series are    *)
(* those of the regime simulated on its own from the start capital, the    *)
(* return series, the contributions and its own config (so no other        *)
(* regime's config and no processing order enters them), and the carried   *)
(* loss changes only in the Future regime's steps.                         *)
C12_RegimesIndependent ==
    /\ \A x \in Regimes : \A y \in 1..Len(annualTax[x]) :
           LET a == RegimeAlone(x, configs[x])[y]
           IN /\ portfolioValues[x][y + 1] = a.wealth
              /\ annualTax[x][y] = a.annual
              /\ cumulativeTax[x][y] = a.cum
    /\ \A y \in 1..Len(futureLocals) :
           futureLocals[y].carryBefore =
               IF y = 1 THEN Zero ELSE futureLocals[y - 1].carryAfter
    /\ Len(futureLocals) >= 1 =>
           futureCarryForwardLoss = futureLocals[Len(futureLocals)].carryAfter

(* a finished two-year run in which the four regimes ended with four       *)
(* different wealths while the Future regime carried a loss                *)
C12_Witness ==
    /\ pc = "done"
    /\ Len(returns) = 2
    /\ RLt(Zero, futureLocals[2].carryBefore)
    /\ \A x, z \in Regimes :
           x # z => portfolioValues[x][3] # portfolioValues[z][3]

(* the contribution amount runSimulation is given for year y (1-based) *)
RawContribution(y) ==
    IF isMap THEN Lookup(contributionsByYear.byYear, returns[y].year)
    ELSE contributionsByYear.amount

(* C13: a contribution amount that is negative, not finite (NaN, +Infinity, *)
(* -Infinity), not a number or missing for the year gives a deposit of 0,  *)
(* and the year is simulated as a year without contributions; for a flat   *)
(* number and for a year map.                                              *)
C13_MalformedContributionIsNoDeposit ==
    \A x \in Regimes : \A y \in 1..Len(locals[x]) :
        (~IsFinite(RawContribution(y)) \/ RLt(RawContribution(y), Zero)) =>
            /\ locals[x][y].deposit = Zero
            /\ locals[x][y].valueAfterReturn =
                   RMul(locals[x][y].prevValue, AnnualFactor(returns[y].return))
            /\ locals[x][y].returnAmount =
                   RSub(locals[x][y].valueAfterReturn, locals[x][y].prevValue)

(* the config c with every field that is not a finite number replaced by   *)
(* the documented default d of that field                                  *)
Defaulted(c, d) == [f \in DOMAIN c |-> IF IsFinite(c[f]) THEN c[f] ELSE d[f]]

(* C14: a config field that is missing or malformed (undefined, null, NaN, *)
(* non-numeric) acts as its documented default: every calculator returns   *)
(* what it returns with the default in place, a number (>= 0 for a tax),   *)
(* and runSimulation's Future loss threshold is that of the defaulted      *)
(* config.                                                                 *)
C14_MalformedFieldActsAsDefault ==
    /\ calcFn = "calcOldSystem" =>
           /\ calcResult = calcOldSystem(calcValue, calcAmount,
                                         Defaulted(calcConfig, getDefaultConfigs.old))
           /\ IsFinite(calcResult) /\ RLe(Zero, calcResult)
    /\ calcFn = "calcCurrentSystem" =>
           /\ calcResult =
                  calcCurrentSystem(calcValue, calcAmount,
                                    Defaulted(calcConfig, getDefaultConfigs.current))
           /\ IsFinite(calcResult) /\ RLe(Zero, calcResult)
    /\ calcFn = "calcFutureIncome" =>
           /\ calcResult =
                  calcFutureIncome(calcAmount,
                                   Defaulted(calcConfig, getDefaultConfigs.future))
           /\ IsFinite(calcResult)
    /\ calcFn = "calcFutureSystem" =>
           /\ calcResult =
                  calcFutureSystem(calcValue, calcAmount,
                                   Defaulted(calcConfig, getDefaultConfigs.future))
           /\ IsFinite(calcResult) /\ RLe(Zero, calcResult)
    /\ \A y \in 1..Len(futureLocals) :
           /\ futureLocals[y].lossThreshold =
                  LossThreshold(Defaulted(configs.future, getDefaultConfigs.future))
           /\ IsFinite(futureLocals[y].lossThreshold)
           /\ RLe(Zero, futureLocals[y].lossThreshold)

(* the documented default values of the old, current and future configs *)
DocumentedDefaults(c) ==
    /\ c.old.deemedReturn = R(4)
    /\ c.old.taxRate = R(30)
    /\ c.old.exemption = R(21139)
    /\ c.current.taxRate = R(36)
    /\ c.current.exemption = R(59357)
    /\ c.current.debtThreshold = R(3800)
    /\ c.current.savingsRate = RDiv(R(128), R(100))
    /\ c.current.investRate = R(6)
    /\ c.current.debtRate = RDiv(R(27), R(10))
    /\ c.current.allocSavings = Zero
    /\ c.current.allocInvest = R(100)
    /\ c.current.allocDebt = Zero
    /\ c.future.taxRate = R(36)
    /\ c.future.freeReturn = R(1800)
    /\ c.future.lossThreshold = R(500)

(* C15 as stated: getDefaultConfigs returns exactly the configs noTax, old, *)
(* current and future with the documented values, and every one of them    *)
(* holds partnerMultiplier = 1.                                            *)
C15_ExactlyFourEachWithMultiplier ==
    calcFn = "getDefaultConfigs" =>
        /\ DOMAIN calcResult = Regimes
        /\ DocumentedDefaults(calcResult)
        /\ \A k \in DOMAIN calcResult :
               /\ "partnerMultiplier" \in DOMAIN calcResult[k]
               /\ calcResult[k].partnerMultiplier = One

(* C15 amended: getDefaultConfigs returns a config for each of noTax, old,  *)
(* current and future (and one for oldMethod) with the documented values;  *)
(* the noTax config is empty and every other config holds                  *)
(* partnerMultiplier = 1.                                                  *)
C15_DefaultConfigs ==
    calcFn = "getDefaultConfigs" =>
        /\ Regimes \subseteq DOMAIN calcResult
        /\ DOMAIN calcResult \ Regimes = {"oldMethod"}
        /\ DocumentedDefaults(calcResult)
        /\ DOMAIN calcResult.noTax = {}
        /\ \A k \in DOMAIN calcResult \ {"noTax"} :
               /\ "partnerMultiplier" \in DOMAIN calcResult[k]
               /\ calcResult[k].partnerMultiplier = One

(* getDefaultConfigs has been called and has returned *)
C15_Witness ==
    /\ pc = "returned"
    /\ calcFn = "getDefaultConfigs"
    /\ DOMAIN calcResult.future =
           {"taxRate", "freeReturn", "lossThreshold", "partnerMultiplier"}
    /\ DOMAIN calcResult.old =
           {"deemedReturn", "taxRate", "exemption", "partnerMultiplier"}

(* the series of the call in progress are those of its own arguments alone *)
ResultFromInputsAlone ==
    \A x \in Regimes :
        /\ portfolioValues[x][1] = startCapital
        /\ \A y \in 1..Len(annualTax[x]) :
               LET a == RegimeAlone(x, configs[x])[y]
               IN /\ portfolioValues[x][y + 1] = a.wealth
                  /\ annualTax[x][y] = a.annual
                  /\ cumulativeTax[x][y] = a.cum

(* a call that has not yet processed anything holds a carried loss of 0    *)
(* and fresh series                                                        *)
FreshAtEntry ==
    (pc = "loop" /\ i = 0 /\ sysIdx = 1) =>
        /\ futureCarryForwardLoss = Zero
        /\ futureLocals = <<>>
        /\ \A x \in Regimes :
               /\ portfolioValues[x] = <<startCapital>>
               /\ annualTax[x] = <<>>
               /\ cumulativeTax[x] = <<>>

(* C16: no state survives between calls of runSimulation.  Every call,     *)
(* whatever calls came before it, starts with the carried loss 0 and fresh *)
(* series; what it returns is determined by its own arguments alone (so    *)
(* calls with identical inputs return identical results in any order);     *)
(* and no step of a call changes the arguments.                            *)
C16_NoStateSurvives ==
    /\ [](FreshAtEntry /\ (pc \in {"loop", "done"} => ResultFromInputsAlone))
    /\ [][pc = "loop" => argVars' = argVars]_vars

(* a later call, begun after a call over a shorter series returned, has    *)
(* processed its two years and carries a loss                              *)
C16_Witness ==
    /\ pc = "loop"
    /\ labels # <<>>
    /\ Len(labels) < 3
    /\ Len(returns) = 2
    /\ i = 2
    /\ RLt(Zero, futureCarryForwardLoss)
    /\ RLt(Zero, futureLocals[2].lossUsed)

(* C17 as stated: buildContributionsByYear returns an entry for every year *)
(* from startYear to endYear; the first year's amount is the base amount   *)
(* unchanged; without indexation every year's amount equals the base       *)
(* amount.                                                                 *)
C17_FirstYearIsBase ==
    calcFn = "buildContributionsByYear" =>
        /\ DOMAIN calcResult = calcConfig.startYear..calcConfig.endYear
        /\ calcConfig.startYear <= calcConfig.endYear =>
               calcResult[calcConfig.startYear] = calcValue
        /\ ~calcConfig.cpiEnabled =>
               \A y \in DOMAIN calcResult : calcResult[y] = calcValue

(* x is the amount a in whole cents: a multiple of 0.01 nearest to a *)
IsBaseInCents(x, a) ==
    /\ RMul(x, R(100))[2] = 1
    /\ RLe(MathAbs(RSub(x, a)), <<1, 200>>)

(* C17 amended: buildContributionsByYear returns an entry for every year   *)
(* from startYear to endYear; the first year's amount is the base amount   *)
(* rounded to two decimals (the base itself when it has at most two);      *)
(* without indexation every year's amount equals that rounded base.        *)
C17_FirstYearIsRoundedBase ==
    calcFn = "buildContributionsByYear" =>
        /\ DOMAIN calcResult = calcConfig.startYear..calcConfig.endYear
        /\ calcConfig.startYear <= calcConfig.endYear =>
               /\ IsBaseInCents(calcResult[calcConfig.startYear], calcValue)
               /\ RMul(calcValue, R(100))[2] = 1 =>
                      calcResult[calcConfig.startYear] = calcValue
        /\ ~calcConfig.cpiEnabled =>
               \A y \in DOMAIN calcResult :
                   calcResult[y] = calcResult[calcConfig.startYear]

(* a schedule over several years, without indexation, for a base amount    *)
(* with more than two decimals                                             *)
C17_Witness ==
    /\ calcFn = "buildContributionsByYear"
    /\ ~calcConfig.cpiEnabled
    /\ calcConfig.startYear + 2 <= calcConfig.endYear
    /\ calcValue = <<2001, 200>>
    /\ calcResult[calcConfig.endYear] = <<1001, 100>>

(* C21: calcFutureIncome returns actualReturn when actualReturn <= 0 and    *)
(* max(0, actualReturn - freeReturn * partnerMultiplier) otherwise; the    *)
(* result is at most actualReturn and, for a positive actualReturn, not    *)
(* negative.                                                               *)
C21_FutureIncome ==
    (calcFn = "calcFutureIncome" /\ calcConfig.partnerMultiplier \in {One, R(2)}) =>
        /\ RLe(calcAmount, Zero) => calcResult = calcAmount
        /\ RLt(Zero, calcAmount) =>
               /\ calcResult =
                      MathMax(Zero, RSub(calcAmount,
                                         RMul(calcConfig.freeReturn,
                                              calcConfig.partnerMultiplier)))
               /\ RLe(Zero, calcResult)
        /\ RLe(calcResult, calcAmount)

(* a call for a couple whose positive return exceeds the doubled tax-free  *)
(* return                                                                  *)
C21_Witness ==
    /\ calcFn = "calcFutureIncome"
    /\ calcConfig.partnerMultiplier = R(2)
    /\ RLt(Zero, calcConfig.freeReturn)
    /\ RLt(Zero, calcResult)
    /\ calcResult = RSub(calcAmount, RMul(R(2), calcConfig.freeReturn))

(* C22: calcOldSystem returns                                              *)
(* max(0, baseWealth - exemption * partnerMultiplier) * deemedReturn/100 * *)
(* taxRate/100: 0 when baseWealth is at most the effective exemption, the  *)
(* same for every actual-return argument, never negative.                  *)
C22_OldSystemFormula ==
    (calcFn = "calcOldSystem" /\ calcConfig.partnerMultiplier \in {One, R(2)}) =>
        LET effectiveExemption ==
                RMul(calcConfig.exemption, calcConfig.partnerMultiplier)
        IN /\ calcResult =
                  RMul(RMul(MathMax(Zero, RSub(calcValue, effectiveExemption)),
                            RDiv(calcConfig.deemedReturn, R(100))),
                       RDiv(calcConfig.taxRate, R(100)))
           /\ RLe(calcValue, effectiveExemption) => calcResult = Zero
           /\ \A a \in CalcAmounts :
                  calcOldSystem(calcValue, a, calcConfig) = calcResult
           /\ RLe(Zero, calcResult)

(* a call with wealth above the exemption and a negative actual return *)
C22_Witness ==
    /\ calcFn = "calcOldSystem"
    /\ calcConfig.partnerMultiplier = One
    /\ RLt(calcAmount, Zero)
    /\ RLt(calcConfig.exemption, calcValue)
    /\ RLt(Zero, calcConfig.exemption)
    /\ RLt(Zero, calcResult)

(* the config c with its three allocation weights multiplied by k *)
ScaledAllocations(c, k) ==
    [c EXCEPT !.allocSavings = RMul(@, k), !.allocInvest = RMul(@, k),
              !.allocDebt = RMul(@, k)]

(* C23: calcCurrentSystem normalizes the allocation weights to shares that *)
(* sum to 1 when at least one weight is positive, so multiplying the three *)
(* weights by one positive factor leaves the tax unchanged; when no weight *)
(* is positive the tax is 0.                                               *)
C23_AllocationsNormalized ==
    calcFn = "calcCurrentSystem" =>
        LET c == calcConfig
            shares == normalizeAllocations(c.allocSavings, c.allocInvest, c.allocDebt)
            somePositive == \/ RLt(Zero, c.allocSavings)
                            \/ RLt(Zero, c.allocInvest)
                            \/ RLt(Zero, c.allocDebt)
        IN /\ somePositive =>
                  /\ RAdd(RAdd(shares.savingsShare, shares.investShare),
                          shares.debtShare) = One
                  /\ RLe(Zero, shares.savingsShare)
                  /\ RLe(Zero, shares.investShare)
                  /\ RLe(Zero, shares.debtShare)
           /\ \A k \in {<<1, 2>>, <<1, 100>>, R(3)} :
                  calcCurrentSystem(calcValue, calcAmount, ScaledAllocations(c, k))
                      = calcResult
           /\ ~somePositive => calcResult = Zero

(* a taxed call whose weights 100/200/100 do not sum to 100 *)
C23_Witness ==
    /\ calcFn = "calcCurrentSystem"
    /\ calcConfig.allocSavings = R(100)
    /\ calcConfig.allocInvest = R(200)
    /\ calcConfig.allocDebt = R(100)
    /\ RLt(Zero, calcResult)

(* the quantities of the current system for wealth w and config c: the     *)
(* three portions of max(0, w), the deductible debt, the notional return,  *)
(* the notional base and the exempt base                                   *)
CurrentQuantities(w, c) ==
    LET weight(x) == MathMax(Zero, x)
        total == RAdd(RAdd(weight(c.allocSavings), weight(c.allocInvest)),
                      weight(c.allocDebt))
        portion(x) == IF RLe(total, Zero) THEN Zero
                      ELSE RDiv(RMul(MathMax(Zero, w), weight(x)), total)
        deductibleDebt ==
            MathMax(Zero, RSub(portion(c.allocDebt),
                               RMul(c.debtThreshold, c.partnerMultiplier)))
        notionalBase ==
            RSub(RAdd(portion(c.allocSavings), portion(c.allocInvest)), deductibleDebt)
    IN [notionalReturn |->
            RSub(RAdd(RDiv(RMul(portion(c.allocSavings), c.savingsRate), R(100)),
                      RDiv(RMul(portion(c.allocInvest), c.investRate), R(100))),
                 RDiv(RMul(deductibleDebt, c.debtRate), R(100))),
        notionalBase |-> notionalBase,
        exemptBase |->
            MathMax(Zero, RSub(notionalBase, RMul(c.exemption, c.partnerMultiplier)))]

(* the value and the zero cases of calcCurrentSystem *)
CurrentFormula(q) ==
    IF \/ RLe(q.notionalReturn, Zero)
       \/ RLe(q.notionalBase, Zero)
       \/ RLe(q.notionalBase, RMul(calcConfig.exemption, calcConfig.partnerMultiplier))
    THEN calcResult = Zero
    ELSE calcResult =
             RMul(RMul(q.notionalReturn,
                       MathMin(One, RDiv(q.exemptBase, q.notionalBase))),
                  RDiv(calcConfig.taxRate, R(100)))

(* C24 as stated: calcCurrentSystem returns                                *)
(* notionalReturn * min(1, exemptBase / notionalBase) * taxRate/100, 0     *)
(* when notionalReturn <= 0, notionalBase <= 0 or notionalBase <=          *)
(* exemption * partnerMultiplier, and never more than                      *)
(* notionalReturn * taxRate/100.                                           *)
C24_CurrentBoundedByNotionalReturn ==
    (calcFn = "calcCurrentSystem" /\ calcConfig.partnerMultiplier \in {One, R(2)}) =>
        LET q == CurrentQuantities(calcValue, calcConfig)
        IN /\ CurrentFormula(q)
           /\ RLe(calcResult,
                  RMul(q.notionalReturn, RDiv(calcConfig.taxRate, R(100))))

(* C24 amended: the same value and zero cases, and the result is never     *)
(* more than max(0, notionalReturn) * taxRate/100.                         *)
C24_CurrentSystemFormula ==
    (calcFn = "calcCurrentSystem" /\ calcConfig.partnerMultiplier \in {One, R(2)}) =>
        LET q == CurrentQuantities(calcValue, calcConfig)
        IN /\ CurrentFormula(q)
           /\ RLe(Zero, calcResult)
           /\ RLe(calcResult,
                  RMul(MathMax(Zero, q.notionalReturn),
                       RDiv(calcConfig.taxRate, R(100))))

(* a taxed call for a couple with deductible debt where only a part of the *)
(* notional base exceeds the exemption                                     *)
C24_Witness ==
    /\ calcFn = "calcCurrentSystem"
    /\ calcConfig.partnerMultiplier = R(2)
    /\ RLt(Zero, calcConfig.allocDebt)
    /\ LET q == CurrentQuantities(calcValue, calcConfig)
       IN /\ RLt(Zero, q.exemptBase)
          /\ RLt(q.exemptBase, q.notionalBase)
          /\ RLt(q.notionalBase, MathMax(Zero, calcValue))
    /\ RLt(Zero, calcResult)

(* C25: in every year and regime the return amount given to the tax        *)
(* calculation is valueAfterReturn - prevValue - 12 * deposit, so deposits *)
(* are not counted as return; without deposit it is prevValue * r/100.     *)
C25_ReturnExcludesDeposits ==
    /\ \A x \in Regimes : \A y \in 1..Len(locals[x]) :
           LET l == locals[x][y]
           IN /\ l.deposit = DepositOfYear(y)
              /\ l.returnAmount =
                     RSub(RSub(l.valueAfterReturn, l.prevValue),
                          RMul(R(12), l.deposit))
              /\ l.deposit = Zero =>
                     l.returnAmount =
                         RMul(l.prevValue, RDiv(returns[y].return, R(100)))
    /\ \A y \in 1..Len(futureLocals) :
           futureLocals[y].incomeBeforeLossSetoff =
               calcFutureIncome(locals["future"][y].returnAmount, configs.future)

(* a finished run with a year of monthly deposits in a falling market: the *)
(* wealth grew by the deposits while the return amount is negative         *)
C25_Witness ==
    /\ pc = "done"
    /\ \E y \in 1..Len(returns) :
           /\ RLt(Zero, DepositOfYear(y))
           /\ returns[y].return = RootHalf
           /\ \A x \in Regimes :
                  /\ RLt(locals[x][y].returnAmount, Zero)
                  /\ RLt(Zero, locals[x][y].valueAfterReturn)

(* the base amount a indexed from startYear up to year y: multiplied by    *)
(* 1 + rate/100 for every later year of the CPI table, by 1 for a year the *)
(* table does not hold                                                     *)
IndexedAmount(a, startYear, y) ==
    LET amount[k \in startYear..y] ==
            IF k = startYear THEN a
            ELSE IF k \in DOMAIN cpiData
                 THEN RMul(amount[k - 1], RAdd(One, RDiv(cpiData[k], R(100))))
                 ELSE amount[k - 1]
    IN amount[y]

(* C26: with indexation, the amount of every year after the first is the   *)
(* previous year's amount times 1 + rate(year)/100, reported rounded to    *)
(* two decimals; a year missing from the CPI table has rate 0, so its      *)
(* amount is the previous year's amount.                                   *)
C26_IndexedSchedule ==
    (calcFn = "buildContributionsByYear" /\ calcConfig.cpiEnabled) =>
        \A y \in DOMAIN calcResult :
            /\ IsBaseInCents(calcResult[y],
                             IndexedAmount(calcValue, calcConfig.startYear, y))
            /\ (y > calcConfig.startYear /\ y \notin DOMAIN cpiData) =>
                   calcResult[y] = calcResult[y - 1]

(* an indexed schedule that grows in 2025 and stays flat in 2026, a year   *)
(* the CPI table does not hold                                             *)
C26_Witness ==
    /\ calcFn = "buildContributionsByYear"
    /\ calcConfig.cpiEnabled
    /\ calcConfig.startYear = 2024
    /\ calcConfig.endYear = 2026
    /\ calcValue = R(1000)
    /\ calcResult[2025] = R(1033)
    /\ calcResult[2026] = R(1033)

(* the start capital is >= 0 and no year's return is below -100% *)
NoReturnBelowMinus100 ==
    /\ RLe(Zero, startCapital)
    /\ \A k \in 1..Len(returns) : RLe(R(-100), returns[k].return)

(* C27: with a start capital >= 0 and returns all >= -100%, every regime's *)
(* wealth is >= 0 at every index of its series, whatever the contribution  *)
(* schedule.                                                               *)
C27_WealthNonNegative ==
    NoReturnBelowMinus100 =>
        \A x \in Regimes : \A k \in 1..Len(portfolioValues[x]) :
            RLe(Zero, portfolioValues[x][k])

(* a finished run in which a regime's tax on the start-of-year wealth was  *)
(* more than what the year left, and took all of it                        *)
C27_Witness ==
    /\ pc = "done"
    /\ NoReturnBelowMinus100
    /\ \E x \in Regimes : \E y \in 1..Len(annualTax[x]) :
           /\ RLt(Zero, locals[x][y].valueAfterReturn)
           /\ RLt(locals[x][y].valueAfterReturn, locals[x][y].tax)
           /\ portfolioValues[x][y + 1] = Zero

(* C28: with a start capital >= 0 and returns all >= -100%, at every index *)
(* the NoTax wealth is at least the wealth of the Old, the Current and the *)
(* Future regime.                                                          *)
C28_NoTaxDominates ==
    NoReturnBelowMinus100 =>
        \A x \in Regimes : \A k \in 1..Len(portfolioValues[x]) :
            k <= Len(portfolioValues["noTax"]) =>
                RLe(portfolioValues[x][k], portfolioValues["noTax"][k])

(* a finished two-year run with deposits in which every taxed regime ended *)
(* strictly below the NoTax regime                                        *)
C28_Witness ==
    /\ pc = "done"
    /\ NoReturnBelowMinus100
    /\ Len(returns) = 2
    /\ \E y \in 1..2 : RLt(Zero, DepositOfYear(y))
    /\ \A x \in Regimes \ {"noTax"} :
           RLt(portfolioValues[x][3], portfolioValues["noTax"][3])

(* what a year y with a return <= -100% does to regime x: the monthly      *)
(* factor is 0; with a deposit d > 0 the wealth after return is d and      *)
(* returnAmount is -prevWealth - 11*d; without a deposit the wealth after  *)
(* return is prevWealth * annualFactor; the tax is at most                 *)
(* max(0, wealthAfterReturn)                                               *)
WipedOutYear(x, y) ==
    LET l == locals[x][y]
        annualFactor == AnnualFactor(returns[y].return)
    IN /\ MonthlyFactor(annualFactor) = Zero
       /\ RLt(Zero, l.deposit) =>
              /\ l.valueAfterReturn = l.deposit
              /\ l.returnAmount =
                     RSub(RNeg(l.prevValue), RMul(R(11), l.deposit))
       /\ l.deposit = Zero =>
              l.valueAfterReturn = RMul(l.prevValue, annualFactor)
       /\ RLe(annualTax[x][y], MathMax(Zero, l.valueAfterReturn))

(* C29 as stated: in a year with a return <= -100% the year is as in       *)
(* WipedOutYear, and without a deposit the wealth after return is negative *)
(* whenever the return is below -100%.                                     *)
C29_NegativeBelowMinus100 ==
    \A x \in Regimes : \A y \in 1..Len(locals[x]) :
        RLe(returns[y].return, R(-100)) =>
            /\ WipedOutYear(x, y)
            /\ (locals[x][y].deposit = Zero /\ RLt(returns[y].return, R(-100))) =>
                   RLt(locals[x][y].valueAfterReturn, Zero)

(* C29: in a year with a return <= -100% the year is as in WipedOutYear,   *)
(* and without a deposit the wealth after return is negative whenever the  *)
(* return is below -100% and the wealth at the start of the year is        *)
(* positive.                                                               *)
C29_NonPositiveFactorYear ==
    \A x \in Regimes : \A y \in 1..Len(locals[x]) :
        RLe(returns[y].return, R(-100)) =>
            /\ WipedOutYear(x, y)
            /\ (/\ locals[x][y].deposit = Zero
                /\ RLt(returns[y].return, R(-100))
                /\ RLt(Zero, locals[x][y].prevValue)) =>
                   RLt(locals[x][y].valueAfterReturn, Zero)

(* a finished run with a deposit year of return below -100% that started   *)
(* with positive wealth, for every regime                                  *)
C29_Witness ==
    /\ pc = "done"
    /\ \E y \in 1..Len(returns) :
           /\ RLt(returns[y].return, R(-100))
           /\ RLt(Zero, DepositOfYear(y))
           /\ \A x \in Regimes :
                  /\ RLt(Zero, locals[x][y].prevValue)
                  /\ locals[x][y].valueAfterReturn = locals[x][y].deposit
                  /\ RLt(locals[x][y].returnAmount, RNeg(locals[x][y].prevValue))

(* the loss the Future regime banks in year y: the whole loss of a year    *)
(* whose income is negative by more than the loss threshold                *)
LossBanked(y) ==
    LET f == futureLocals[y]
    IN IF /\ RLt(f.incomeBeforeLossSetoff, Zero)
          /\ RLt(f.lossThreshold, RNeg(f.incomeBeforeLossSetoff))
       THEN RNeg(f.incomeBeforeLossSetoff) ELSE Zero

(* the losses banked, and the losses used, in the years 1..y *)
TotalBanked(y) ==
    LET total[k \in Nat] ==
            IF k = 0 THEN Zero ELSE RAdd(total[k - 1], LossBanked(k))
    IN total[y]

TotalUsed(y) ==
    LET total[k \in Nat] ==
            IF k = 0 THEN Zero ELSE RAdd(total[k - 1], futureLocals[k].lossUsed)
    IN total[y]

(* C30: after every year the Future regime's carried loss is the losses    *)
(* banked so far minus the losses used so far; the losses used through a   *)
(* year never exceed the losses banked before that year, so no loss is set *)
(* off against the income of its own year or of an earlier one, and the    *)
(* total used never exceeds the total banked.                              *)
C30_CarriedLossLedger ==
    /\ \A y \in 1..Len(futureLocals) :
           /\ futureLocals[y].carryAfter = RSub(TotalBanked(y), TotalUsed(y))
           /\ RLe(TotalUsed(y), TotalBanked(y - 1))
           /\ RLe(TotalUsed(y), TotalBanked(y))
           /\ RLt(Zero, LossBanked(y)) => futureLocals[y].lossUsed = Zero
    /\ futureCarryForwardLoss =
           RSub(TotalBanked(Len(futureLocals)), TotalUsed(Len(futureLocals)))

(* a finished run that banked a loss in its first year and used it against *)
(* the income of its second year                                          *)
C30_Witness ==
    /\ pc = "done"
    /\ Len(futureLocals) = 2
    /\ RLt(Zero, LossBanked(1))
    /\ RLt(Zero, futureLocals[2].lossUsed)
    /\ RLe(futureLocals[2].lossUsed, LossBanked(1))
    /\ RLt(Zero, annualTax["future"][2])

=============================================================================
